---- MODULE Spec2Model ----
(***************************************************************************)
(* A model of python/pyspark/resource/profile.py: ResourceProfile and      *)
(* ResourceProfileBuilder, in their local (no JVM) and delegated (JVM      *)
(* handle) modes.                                                          *)
(*                                                                         *)
(* Python dict objects live in a per-builder heap (pyheap) and are held by *)
(* reference, so that two attributes naming the same dict see each other's *)
(* in-place updates.  The JVM-side builder and profile are modelled from   *)
(* their description: a builder with two name-keyed maps, a build that     *)
(* returns an immutable snapshot with an engine-assigned id.               *)
(***************************************************************************)
EXTENDS Integers, Sequences, FiniteSets, TLC

\* ---------------------------------------------------------------- bounds
\* Profiles a caller holds at once (a profile it drops is garbage).
MaxProfiles == 1

\* ------------------------------------------------------------ value types
\* Python's None, for the attributes that hold a JVM handle or None.
None == [none |-> TRUE]

\* pyspark.resource.requests.TaskResourceRequest(resourceName, amount)
TaskResourceRequest(resourceName, amount) ==
    [resourceName |-> resourceName, amount |-> amount]

\* pyspark.resource.requests.ExecutorResourceRequest(resourceName, amount,
\* discoveryScript, vendor)
ExecutorResourceRequest(resourceName, amount, discoveryScript, vendor) ==
    [resourceName |-> resourceName, amount |-> amount,
     discoveryScript |-> discoveryScript, vendor |-> vendor]

\* The JVM's records, reached through the bridge by their accessor methods.
JavaTaskResourceRequest(resourceName, amount) ==
    [jclass |-> "TaskResourceRequest", resourceName |-> resourceName,
     amount |-> amount]

JavaExecutorResourceRequest(resourceName, amount, discoveryScript, vendor) ==
    [jclass |-> "ExecutorResourceRequest", resourceName |-> resourceName,
     amount |-> amount, discoveryScript |-> discoveryScript, vendor |-> vendor]

\* An empty dict, {}.
EmptyDict == [k \in {} |-> None]

\* Mutants of dict.update: the dict replaced by the argument; the entries the
\* dict already has kept.
DictUpdate_replaces(d, other) == other

DictUpdate_keepsOld(d, other) ==
    [k \in (DOMAIN d) \cup (DOMAIN other) |->
        IF k \in DOMAIN d THEN d[k] ELSE other[k]]

\* dict.update(other): other's entries win, the rest of d is kept.
DictUpdate(d, other) ==
    [k \in (DOMAIN d) \cup (DOMAIN other) |->
        IF k \in DOMAIN other THEN other[k] ELSE d[k]]

\* Mutant of the truthiness test: every dict passes, also an empty one.
Truthy_always(d) == d = d

\* Python truthiness of a dict, as `x or {}` tests it.
Truthy(d) == DOMAIN d # {}

\* ------------------------------------------------------------ input groups
TaskNames == {"cpus", "gpu"}
ExecNames == {"gpu"}

\* The requests a caller may put under a name, on the task or executor side.
RequestsFor(kind, n) ==
    IF kind = "task"
    THEN (IF n = "gpu" THEN {TaskResourceRequest(n, 1), TaskResourceRequest(n, 2)}
          ELSE {TaskResourceRequest(n, 1)})
    ELSE {ExecutorResourceRequest(n, 2, "getGpus.sh", "nvidia.com")}

\* All dicts name -> request over a set of names.
DictsOver(kind, names) ==
    UNION {{d \in [dom -> UNION {RequestsFor(kind, n) : n \in dom}] :
               \A n \in dom : d[n] \in RequestsFor(kind, n)} : dom \in SUBSET names}

TaskDicts == DictsOver("task", TaskNames)
ExecDicts == DictsOver("executor", ExecNames)

\* A requirement group handed to require: which class it is, whether it
\* carries a JVM handle, and its requirements.
Groups ==
    [kind : {"task"}, remote : BOOLEAN, requests : TaskDicts]
    \cup [kind : {"executor"}, remote : BOOLEAN, requests : ExecDicts]

\* ------------------------------------------------ python <-> JVM records
\* TaskResourceRequests(_jvm, requests): the JVM group built from a dict.
JavaTaskRequests(requests) ==
    [k \in DOMAIN requests |->
        JavaTaskResourceRequest(requests[k].resourceName, requests[k].amount)]

\* ExecutorResourceRequests(_jvm, requests): the JVM group built from a dict.
JavaExecutorRequests(requests) ==
    [k \in DOMAIN requests |->
        JavaExecutorResourceRequest(requests[k].resourceName, requests[k].amount,
                                    requests[k].discoveryScript, requests[k].vendor)]

\* The loop of the taskResources accessors over taskResourcesJMap().
FromJavaTaskMap(taskRes) ==
    [k \in DOMAIN taskRes |->
        TaskResourceRequest(taskRes[k].resourceName, taskRes[k].amount)]

\* The loop of the executorResources accessors over executorResourcesJMap().
FromJavaExecutorMap(execRes) ==
    [k \in DOMAIN execRes |->
        ExecutorResourceRequest(execRes[k].resourceName, execRes[k].amount,
                                execRes[k].discoveryScript, execRes[k].vendor)]

\* resourceRequest._java_task_resource_requests /
\* _java_executor_resource_requests: the handle a group carries, or None.
GroupJavaHandle(g) ==
    IF ~g.remote THEN None
    ELSE IF g.kind = "task" THEN [requests |-> JavaTaskRequests(g.requests)]
    ELSE [requests |-> JavaExecutorRequests(g.requests)]

\* resourceRequest.requests: the group's dict (read back from its handle
\* when it carries one).
GroupRequests(g) ==
    IF ~g.remote THEN g.requests
    ELSE IF g.kind = "task" THEN FromJavaTaskMap(GroupJavaHandle(g).requests)
    ELSE FromJavaExecutorMap(GroupJavaHandle(g).requests)

\* ------------------------------------------------------------------ state
Builders == {"b", "l", "d"}
Slots == 1..MaxProfiles

VARIABLES
    jvm,    \* SparkContext._jvm is not None: an engine session is active
    world   \* world[b]: builder b, the objects it made and how its last call ended:
            \*   builder        the ResourceProfileBuilder object's attributes
            \*   pyheap         the dict objects the builder and its profiles refer to
            \*   profiles       profiles[i]: the ResourceProfile the caller holds in slot i
            \*   err            how the last call on b or on one of its profiles ended
            \*   required       history: what the require calls so far have asked for
            \*   replaced       history: the <<side, name>> whose request the last step replaced
            \*   merged         history: per side, the groups required since its last clear, merged
            \*   clearedSince   history, kept for a builder without a JVM: per slot, the
            \*                  sides cleared since its profile was built

vars == <<jvm, world>>

\* A builder that has not been constructed yet.
NoBuilder ==
    [constructed |-> FALSE, jvm |-> FALSE, java_resource_profile_builder |-> None,
     executor_resource_requests |-> 0, task_resource_requests |-> 0]

\* A slot that holds no profile.
NoProfile ==
    [live |-> FALSE, java_resource_profile |-> None,
     executor_resource_requests |-> 0, task_resource_requests |-> 0]

\* ------------------------------------------------------- garbage collection
\* The dict references a world holds, in a fixed order.
Roots(w) ==
    <<w.builder.executor_resource_requests, w.builder.task_resource_requests>>
    \o [j \in 1..(2 * MaxProfiles) |->
          IF j % 2 = 1 THEN w.profiles[(j + 1) \div 2].executor_resource_requests
          ELSE w.profiles[j \div 2].task_resource_requests]

FirstRoot(roots, a) ==
    CHOOSE i \in 1..Len(roots) :
        roots[i] = a /\ \A j \in 1..(i - 1) : roots[j] # a

\* Addresses are not observable: dicts nothing refers to are collected and the
\* rest renumbered in the order of Roots.
Collect(w) ==
    LET roots == Roots(w)
        liveAddrs == {roots[i] : i \in 1..Len(roots)} \ {0}
        NewAddr(a) ==
            IF a = 0 THEN 0
            ELSE 1 + Cardinality({c \in liveAddrs :
                                     FirstRoot(roots, c) < FirstRoot(roots, a)})
        OldAddr(n) == CHOOSE a \in liveAddrs : NewAddr(a) = n
    IN  [w EXCEPT
            !.pyheap = [n \in 1..Cardinality(liveAddrs) |-> w.pyheap[OldAddr(n)]],
            !.builder.executor_resource_requests = NewAddr(@),
            !.builder.task_resource_requests = NewAddr(@),
            !.profiles = [i \in Slots |->
                [w.profiles[i] EXCEPT
                    !.executor_resource_requests = NewAddr(@),
                    !.task_resource_requests = NewAddr(@)]]]

\* --------------------------------------------------------- the JVM's side
\* org.apache.spark.resource.ResourceProfileBuilder(): two empty maps.
JavaResourceProfileBuilder == [executorResources |-> EmptyDict, taskResources |-> EmptyDict]

\* The JVM builder's require: the group's entries are put into the map of
\* the group's side, keyed by resource name.
JavaBuilderRequire(jb, kind, requests) ==
    IF kind = "task"
    THEN [jb EXCEPT !.taskResources = DictUpdate(@, requests)]
    ELSE [jb EXCEPT !.executorResources = DictUpdate(@, requests)]

JavaBuilderClearExecutorResourceRequests(jb) == [jb EXCEPT !.executorResources = EmptyDict]

JavaBuilderClearTaskResourceRequests(jb) == [jb EXCEPT !.taskResources = EmptyDict]

\* The JVM builder's build: an immutable profile holding copies of the two
\* maps, with the id the engine assigns.
JavaBuilderBuild(jb, profileId) ==
    [id |-> profileId, executorResources |-> jb.executorResources,
     taskResources |-> jb.taskResources]

\* The id the engine gives its next profile.  Ids are opaque and only handed
\* back, so the model takes the least one no profile still held carries.
JavaNextProfileId(w) ==
    CHOOSE n \in 0..MaxProfiles :
        /\ \A i \in Slots : w.profiles[i].java_resource_profile # None
                               => w.profiles[i].java_resource_profile.id # n
        /\ \A m \in 0..(n - 1) :
              \E i \in Slots : /\ w.profiles[i].java_resource_profile # None
                                /\ w.profiles[i].java_resource_profile.id = m

\* A call through the bridge completes while the session is there, and
\* raises otherwise.
BridgeUp(sessionActive) == sessionActive

\* How a call ends.
Raise(w, error) == [w EXCEPT !.err = error]
Return(w) == [w EXCEPT !.err = "ok"]

\* -------------------------------------------------------- ResourceProfile
\* Mutant of ResourceProfile.__init__: the two dicts taken in the wrong order.
ResourceProfile_init_swapped(heap, java_resource_profile, exec_req, task_req) ==
    IF java_resource_profile # None
    THEN [pyheap |-> heap,
          profile |-> [live |-> TRUE, java_resource_profile |-> java_resource_profile,
                       executor_resource_requests |-> 0, task_resource_requests |-> 0]]
    ELSE [pyheap |-> heap,
          profile |-> [live |-> TRUE, java_resource_profile |-> None,
                       executor_resource_requests |-> task_req,
                       task_resource_requests |-> exec_req]]

\* ResourceProfile.__init__: a handle, or the two dicts it is given, each
\* replaced by a new {} when it is empty (`_exec_req or {}`).
ResourceProfile_init(heap, java_resource_profile, exec_req, task_req) ==
    IF java_resource_profile # None
    THEN [pyheap |-> heap,
          profile |-> [live |-> TRUE, java_resource_profile |-> java_resource_profile,
                       executor_resource_requests |-> 0, task_resource_requests |-> 0]]
    ELSE LET h1 == IF Truthy(heap[exec_req]) THEN heap ELSE Append(heap, EmptyDict)
             e  == IF Truthy(heap[exec_req]) THEN exec_req ELSE Len(h1)
             h2 == IF Truthy(h1[task_req]) THEN h1 ELSE Append(h1, EmptyDict)
             t  == IF Truthy(h1[task_req]) THEN task_req ELSE Len(h2)
         IN  [pyheap |-> h2,
              profile |-> [live |-> TRUE, java_resource_profile |-> None,
                           executor_resource_requests |-> e,
                           task_resource_requests |-> t]]

\* ResourceProfile.taskResources: what the accessor returns for profile p.
ResourceProfile_taskResources(w, p) ==
    IF p.java_resource_profile # None
    THEN FromJavaTaskMap(p.java_resource_profile.taskResources)
    ELSE w.pyheap[p.task_resource_requests]

\* ResourceProfile.executorResources: what the accessor returns for profile p.
ResourceProfile_executorResources(w, p) ==
    IF p.java_resource_profile # None
    THEN FromJavaExecutorMap(p.java_resource_profile.executorResources)
    ELSE w.pyheap[p.executor_resource_requests]

\* self._java_resource_profile.id(): the id the handle of profile i carries.
ResourceProfile_idValue(w, i) == w.profiles[i].java_resource_profile.id

\* Mutant of ResourceProfile.id: the error raised with a handle as well.
ResourceProfile_id_unregistered(w, up, i) == Raise(w, "RuntimeError")

\* Mutant of ResourceProfile.id: no error without a handle.
ResourceProfile_id_silent(w, up, i) ==
    IF w.profiles[i].java_resource_profile # None
    THEN (IF BridgeUp(up) THEN Return(w) ELSE Raise(w, "BridgeError"))
    ELSE Return(w)

\* ResourceProfile.id: the handle's id, or RuntimeError without a handle.
ResourceProfile_id(w, up, i) ==
    IF w.profiles[i].java_resource_profile # None
    THEN (IF BridgeUp(up) THEN Return(w) ELSE Raise(w, "BridgeError"))
    ELSE Raise(w, "RuntimeError")

\* A call of a profile's taskResources or executorResources accessor.
ResourceProfile_read(w, up, i) ==
    IF w.profiles[i].java_resource_profile # None
    THEN (IF BridgeUp(up) THEN Return(w) ELSE Raise(w, "BridgeError"))
    ELSE Return(w)

\* ------------------------------------------------- ResourceProfileBuilder
\* Mutant of ResourceProfileBuilder.__init__: the session is not looked at.
ResourceProfileBuilder_init_alwaysLocal(w, sessionActive) ==
    [w EXCEPT
        !.builder = [constructed |-> TRUE, jvm |-> FALSE,
                     java_resource_profile_builder |-> None,
                     executor_resource_requests |-> 1,
                     task_resource_requests |-> 2],
        !.pyheap = <<EmptyDict, EmptyDict>>,
        !.err = "ok"]

\* ResourceProfileBuilder.__init__: the mode is chosen from SparkContext._jvm.
ResourceProfileBuilder_init(w, sessionActive) ==
    IF sessionActive
    THEN [w EXCEPT
            !.builder = [constructed |-> TRUE, jvm |-> TRUE,
                         java_resource_profile_builder |-> JavaResourceProfileBuilder,
                         executor_resource_requests |-> 0,
                         task_resource_requests |-> 0],
            !.err = "ok"]
    ELSE [w EXCEPT
            !.builder = [constructed |-> TRUE, jvm |-> FALSE,
                         java_resource_profile_builder |-> None,
                         executor_resource_requests |-> 1,
                         task_resource_requests |-> 2],
            !.pyheap = <<EmptyDict, EmptyDict>>,
            !.err = "ok"]

\* Mutant of the TaskResourceRequests branch: the JVM builder is given the
\* requests one by one, and the call that fails has passed the first.
ResourceProfileBuilder_require_task_partial(w, up, resourceRequest) ==
    IF w.builder.java_resource_profile_builder # None
    THEN IF ~BridgeUp(up)
         THEN LET names == DOMAIN resourceRequest.requests
                  first == IF names = {} THEN {} ELSE {CHOOSE n \in names : TRUE}
                  some == [n \in first |-> resourceRequest.requests[n]]
              IN  Raise([w EXCEPT !.builder.java_resource_profile_builder =
                            JavaBuilderRequire(@, "task", JavaTaskRequests(some))],
                        "BridgeError")
         ELSE Return([w EXCEPT !.builder.java_resource_profile_builder =
                        JavaBuilderRequire(@, "task",
                                           JavaTaskRequests(resourceRequest.requests))])
    ELSE Return([w EXCEPT !.pyheap[w.builder.task_resource_requests] =
                   DictUpdate(@, GroupRequests(resourceRequest))])

\* ResourceProfileBuilder.require, the TaskResourceRequests branch.
ResourceProfileBuilder_require_task(w, up, resourceRequest) ==
    IF w.builder.java_resource_profile_builder # None
    THEN IF ~BridgeUp(up) THEN Raise(w, "BridgeError")
         ELSE IF GroupJavaHandle(resourceRequest) # None
         THEN Return([w EXCEPT !.builder.java_resource_profile_builder =
                   JavaBuilderRequire(@, "task",
                                      GroupJavaHandle(resourceRequest).requests)])
         ELSE LET taskReqs == JavaTaskRequests(resourceRequest.requests)
              IN  Return([w EXCEPT !.builder.java_resource_profile_builder =
                             JavaBuilderRequire(@, "task", taskReqs)])
    ELSE Return([w EXCEPT !.pyheap[w.builder.task_resource_requests] =
                   DictUpdate(@, GroupRequests(resourceRequest))])

\* Mutant of the other branch: the handle made for a group that has none is
\* not passed on to the JVM builder.
ResourceProfileBuilder_require_executor_notForwarded(w, up, resourceRequest) ==
    IF w.builder.java_resource_profile_builder # None
    THEN IF ~BridgeUp(up) THEN Raise(w, "BridgeError")
         ELSE IF GroupJavaHandle(resourceRequest) # None
         THEN Return([w EXCEPT !.builder.java_resource_profile_builder =
                   JavaBuilderRequire(@, "executor",
                                      GroupJavaHandle(resourceRequest).requests)])
         ELSE Return(w)
    ELSE Return([w EXCEPT !.pyheap[w.builder.executor_resource_requests] =
                   DictUpdate(@, GroupRequests(resourceRequest))])

\* ResourceProfileBuilder.require, the branch of every other argument.
ResourceProfileBuilder_require_executor(w, up, resourceRequest) ==
    IF w.builder.java_resource_profile_builder # None
    THEN IF ~BridgeUp(up) THEN Raise(w, "BridgeError")
         ELSE IF GroupJavaHandle(resourceRequest) # None
         THEN Return([w EXCEPT !.builder.java_resource_profile_builder =
                   JavaBuilderRequire(@, "executor",
                                      GroupJavaHandle(resourceRequest).requests)])
         ELSE LET execReqs == JavaExecutorRequests(resourceRequest.requests)
              IN  Return([w EXCEPT !.builder.java_resource_profile_builder =
                             JavaBuilderRequire(@, "executor", execReqs)])
    ELSE Return([w EXCEPT !.pyheap[w.builder.executor_resource_requests] =
                   DictUpdate(@, GroupRequests(resourceRequest))])

\* Mutant of ResourceProfileBuilder.require: every group taken for a task group.
ResourceProfileBuilder_require_alwaysTask(w, up, resourceRequest) ==
    ResourceProfileBuilder_require_task(w, up, resourceRequest)

\* ResourceProfileBuilder.require: isinstance(resourceRequest, TaskResourceRequests)
\* picks the side.
ResourceProfileBuilder_require(w, up, resourceRequest) ==
    IF resourceRequest.kind = "task"
    THEN ResourceProfileBuilder_require_task(w, up, resourceRequest)
    ELSE ResourceProfileBuilder_require_executor(w, up, resourceRequest)

\* Mutant of clearExecutorResourceRequests: the task side is cleared as well.
ResourceProfileBuilder_clearExecutorResourceRequests_both(w, up) ==
    IF w.builder.java_resource_profile_builder # None
    THEN IF ~BridgeUp(up) THEN Raise(w, "BridgeError")
         ELSE Return([w EXCEPT !.builder.java_resource_profile_builder =
                        JavaResourceProfileBuilder])
    ELSE Return(Collect([w EXCEPT
            !.pyheap = @ \o <<EmptyDict, EmptyDict>>,
            !.builder.executor_resource_requests = Len(w.pyheap) + 1,
            !.builder.task_resource_requests = Len(w.pyheap) + 2]))

\* Mutant of clearExecutorResourceRequests: nothing is cleared.
ResourceProfileBuilder_clearExecutorResourceRequests_kept(w, up) ==
    IF w.builder.java_resource_profile_builder # None
    THEN (IF BridgeUp(up) THEN Return(w) ELSE Raise(w, "BridgeError"))
    ELSE Return(w)

\* ResourceProfileBuilder.clearExecutorResourceRequests: the JVM builder's
\* clear, or the attribute rebound to a new {}.
ResourceProfileBuilder_clearExecutorResourceRequests(w, up) ==
    IF w.builder.java_resource_profile_builder # None
    THEN IF ~BridgeUp(up) THEN Raise(w, "BridgeError")
         ELSE Return([w EXCEPT !.builder.java_resource_profile_builder =
                        JavaBuilderClearExecutorResourceRequests(@)])
    ELSE Return(Collect([w EXCEPT
            !.pyheap = Append(@, EmptyDict),
            !.builder.executor_resource_requests = Len(w.pyheap) + 1]))

\* Mutant of clearTaskResourceRequests: the dict emptied in place
\* (self._task_resource_requests.clear()).
ResourceProfileBuilder_clearTaskResourceRequests_inPlace(w, up) ==
    IF w.builder.java_resource_profile_builder # None
    THEN IF ~BridgeUp(up) THEN Raise(w, "BridgeError")
         ELSE Return([w EXCEPT !.builder.java_resource_profile_builder =
                        JavaBuilderClearTaskResourceRequests(@)])
    ELSE Return([w EXCEPT !.pyheap[w.builder.task_resource_requests] = EmptyDict])

\* Mutant of clearTaskResourceRequests: nothing is cleared.
ResourceProfileBuilder_clearTaskResourceRequests_kept(w, up) ==
    IF w.builder.java_resource_profile_builder # None
    THEN (IF BridgeUp(up) THEN Return(w) ELSE Raise(w, "BridgeError"))
    ELSE Return(w)

\* ResourceProfileBuilder.clearTaskResourceRequests.
ResourceProfileBuilder_clearTaskResourceRequests(w, up) ==
    IF w.builder.java_resource_profile_builder # None
    THEN IF ~BridgeUp(up) THEN Raise(w, "BridgeError")
         ELSE Return([w EXCEPT !.builder.java_resource_profile_builder =
                        JavaBuilderClearTaskResourceRequests(@)])
    ELSE Return(Collect([w EXCEPT
            !.pyheap = Append(@, EmptyDict),
            !.builder.task_resource_requests = Len(w.pyheap) + 1]))

\* Mutant of ResourceProfileBuilder.taskResources: the loop runs over
\* executorResourcesJMap().
ResourceProfileBuilder_taskResources_otherMap(w) ==
    IF w.builder.java_resource_profile_builder # None
    THEN FromJavaTaskMap(w.builder.java_resource_profile_builder.executorResources)
    ELSE w.pyheap[w.builder.task_resource_requests]

\* ResourceProfileBuilder.taskResources: what the accessor returns.
ResourceProfileBuilder_taskResources(w) ==
    IF w.builder.java_resource_profile_builder # None
    THEN FromJavaTaskMap(w.builder.java_resource_profile_builder.taskResources)
    ELSE w.pyheap[w.builder.task_resource_requests]

\* ResourceProfileBuilder.executorResources: what the accessor returns.
ResourceProfileBuilder_executorResources(w) ==
    IF w.builder.java_resource_profile_builder # None
    THEN FromJavaExecutorMap(w.builder.java_resource_profile_builder.executorResources)
    ELSE w.pyheap[w.builder.executor_resource_requests]

\* Mutant of the builder's accessors: the entries are taken out as they are
\* read (popitem in the loop).
ResourceProfileBuilder_read_drains(w, up) ==
    IF w.builder.java_resource_profile_builder # None
    THEN IF ~BridgeUp(up) THEN Raise(w, "BridgeError")
         ELSE Return([w EXCEPT !.builder.java_resource_profile_builder =
                        JavaBuilderClearTaskResourceRequests(@)])
    ELSE Return([w EXCEPT !.pyheap[w.builder.task_resource_requests] = EmptyDict])

\* A call of the builder's taskResources or executorResources accessor.
ResourceProfileBuilder_read(w, up) ==
    IF w.builder.java_resource_profile_builder # None
    THEN (IF BridgeUp(up) THEN Return(w) ELSE Raise(w, "BridgeError"))
    ELSE Return(w)

\* The slot the caller keeps the next profile in.
FreeSlot(w) == CHOOSE i \in Slots : ~w.profiles[i].live /\ \A j \in 1..(i - 1) : w.profiles[j].live

\* Mutant of ResourceProfileBuilder.build: the builder starts afresh after it.
ResourceProfileBuilder_build_resets(w, up) ==
    IF w.builder.java_resource_profile_builder # None
    THEN IF ~BridgeUp(up) THEN Raise(w, "BridgeError")
         ELSE LET jresourceProfile ==
                      JavaBuilderBuild(w.builder.java_resource_profile_builder,
                                       JavaNextProfileId(w))
                  made == ResourceProfile_init(w.pyheap, jresourceProfile, 0, 0)
              IN  Return([w EXCEPT !.profiles[FreeSlot(w)] = made.profile,
                                   !.builder.java_resource_profile_builder =
                                       JavaResourceProfileBuilder])
    ELSE LET made == ResourceProfile_init(w.pyheap, None,
                                          w.builder.executor_resource_requests,
                                          w.builder.task_resource_requests)
         IN  Return(Collect([w EXCEPT
                !.pyheap = made.pyheap \o <<EmptyDict, EmptyDict>>,
                !.profiles[FreeSlot(w)] = made.profile,
                !.builder.executor_resource_requests = Len(made.pyheap) + 1,
                !.builder.task_resource_requests = Len(made.pyheap) + 2]))

\* ResourceProfileBuilder.build: the JVM builder's profile wrapped, or a
\* ResourceProfile given the builder's own two dicts.
ResourceProfileBuilder_build(w, up) ==
    IF w.builder.java_resource_profile_builder # None
    THEN IF ~BridgeUp(up) THEN Raise(w, "BridgeError")
         ELSE LET jresourceProfile ==
                      JavaBuilderBuild(w.builder.java_resource_profile_builder,
                                       JavaNextProfileId(w))
                  made == ResourceProfile_init(w.pyheap, jresourceProfile, 0, 0)
              IN  Return([w EXCEPT !.profiles[FreeSlot(w)] = made.profile])
    ELSE LET made == ResourceProfile_init(w.pyheap, None,
                                          w.builder.executor_resource_requests,
                                          w.builder.task_resource_requests)
         IN  Return(Collect([w EXCEPT !.pyheap = made.pyheap,
                                      !.profiles[FreeSlot(w)] = made.profile]))

\* The caller lets go of the profile in slot i.
DropProfile(w, i) == Collect([w EXCEPT !.profiles[i] = NoProfile])

\* ---------------------------------------------------------------- history
\* required.pure: the builder has so far only seen require calls that returned,
\* no two of them naming the same resource on the same side; executor and task
\* are then the union of what they asked for, and calls counts them (0, 1, 2,
\* 3 for three or more).  Anything else ends the record.
NoHistory == [pure |-> FALSE, calls |-> 0, executor |-> EmptyDict, task |-> EmptyDict]
FreshHistory == [pure |-> TRUE, calls |-> 0, executor |-> EmptyDict, task |-> EmptyDict]

\* Two maps merged, the later one winning each name both have.
RightBiasedMerge(earlier, later) ==
    [k \in (DOMAIN later) \cup (DOMAIN earlier) |->
        IF k \notin DOMAIN later THEN earlier[k] ELSE later[k]]

\* merged before any require.
NoneRequired == [executor |-> EmptyDict, task |-> EmptyDict]

\* The world of a builder before its construction.
BlankWorld ==
    [builder |-> NoBuilder, pyheap |-> << >>, profiles |-> [i \in Slots |-> NoProfile],
     err |-> "ok", required |-> NoHistory, replaced |-> {},
     merged |-> NoneRequired, clearedSince |-> [i \in Slots |-> {}]]

\* The history after ResourceProfileBuilder().
AfterInit(new) ==
    [new EXCEPT !.required = FreshHistory, !.replaced = {}, !.merged = NoneRequired]

\* The history after require(g) took the world from old to new.
AfterRequire(old, new, g) ==
    LET had == old.required[g.kind]
        before == IF g.kind = "task" THEN ResourceProfileBuilder_taskResources(old)
                  ELSE ResourceProfileBuilder_executorResources(old)
    IN  [new EXCEPT
            !.required =
                IF /\ old.required.pure
                   /\ new.err = "ok"
                   /\ (DOMAIN had) \cap (DOMAIN g.requests) = {}
                THEN [old.required EXCEPT
                        ![g.kind] = [k \in (DOMAIN had) \cup (DOMAIN g.requests) |->
                                        IF k \in DOMAIN had THEN had[k] ELSE g.requests[k]],
                        !.calls = IF @ < 3 THEN @ + 1 ELSE @]
                ELSE NoHistory,
            !.merged =
                IF new.err = "ok"
                THEN [@ EXCEPT ![g.kind] = RightBiasedMerge(@, g.requests)]
                ELSE @,
            !.replaced =
                IF new.err = "ok"
                THEN {<<g.kind, n>> : n \in {m \in (DOMAIN g.requests) \cap (DOMAIN before) :
                                                before[m] # g.requests[m]}}
                ELSE {}]

\* The history after a clear or a build, and after a step that changes no
\* request (a read, a session starting or ending).
AfterChange(new) == [new EXCEPT !.required = NoHistory, !.replaced = {}]

\* The history after the clear of one side that returned: that side starts
\* again from nothing, and the profiles the caller holds (of a builder
\* without a JVM) have seen it cleared.
AfterClear(new, kind) ==
    IF new.err # "ok" THEN AfterChange(new)
    ELSE [AfterChange(new) EXCEPT
            !.merged[kind] = EmptyDict,
            !.clearedSince = [i \in Slots |->
                IF new.profiles[i].live /\ new.builder.java_resource_profile_builder = None
                THEN @[i] \cup {kind} ELSE {}]]

\* The history after build put a profile in slot i: nothing was cleared since.
AfterBuild(new, i) ==
    IF new.err # "ok" THEN AfterChange(new)
    ELSE [AfterChange(new) EXCEPT !.clearedSince[i] = {}]

\* The history after the caller dropped the profile of slot i.
AfterDiscard(new, i) == [new EXCEPT !.clearedSince[i] = {}]
AfterRead(new) == [new EXCEPT !.replaced = {}]

\* ---------------------------------------------------------------- actions
\* The builders of S take the worlds nw gives them; the others keep theirs.
Update(S, nw) ==
    /\ world' = [b \in Builders |-> IF b \in S THEN nw[b] ELSE world[b]]
    /\ UNCHANGED jvm

Constructed(S) == \A b \in S : world[b].builder.constructed

\* An engine session starts, or ends: no call of any builder is the last step.
StartSession ==
    /\ ~jvm
    /\ jvm' = TRUE
    /\ world' = [b \in Builders |-> AfterRead(world[b])]

StopSession ==
    /\ jvm
    /\ jvm' = FALSE
    /\ world' = [b \in Builders |-> AfterRead(world[b])]

\* ResourceProfileBuilder()
Construct(S) ==
    /\ \A b \in S : ~world[b].builder.constructed
    /\ Update(S, [b \in S |-> AfterInit(ResourceProfileBuilder_init(world[b], jvm))])

\* builder.require(g); a group that carries a handle was made under a session.
Require(S, g) ==
    /\ Constructed(S)
    /\ g.remote => jvm
    /\ Update(S, [b \in S |->
          AfterRequire(world[b], ResourceProfileBuilder_require(world[b], jvm, g), g)])

ClearExecutorResourceRequests(S) ==
    /\ Constructed(S)
    /\ Update(S, [b \in S |->
          AfterClear(ResourceProfileBuilder_clearExecutorResourceRequests(world[b], jvm),
                     "executor")])

ClearTaskResourceRequests(S) ==
    /\ Constructed(S)
    /\ Update(S, [b \in S |->
          AfterClear(ResourceProfileBuilder_clearTaskResourceRequests(world[b], jvm),
                     "task")])

\* builder.build, while the caller has a free slot to keep the profile in.
Build(S) ==
    /\ Constructed(S)
    /\ \A b \in S : \E i \in Slots : ~world[b].profiles[i].live
    /\ Update(S, [b \in S |->
          AfterBuild(ResourceProfileBuilder_build(world[b], jvm), FreeSlot(world[b]))])

\* builder.taskResources, builder.executorResources
BuilderTaskResources(S) ==
    /\ Constructed(S)
    /\ Update(S, [b \in S |-> AfterRead(ResourceProfileBuilder_read(world[b], jvm))])

BuilderExecutorResources(S) ==
    /\ Constructed(S)
    /\ Update(S, [b \in S |-> AfterRead(ResourceProfileBuilder_read(world[b], jvm))])

\* profile.id, profile.taskResources, profile.executorResources
ProfileId(S, i) ==
    /\ \A b \in S : world[b].profiles[i].live
    /\ Update(S, [b \in S |-> AfterRead(ResourceProfile_id(world[b], jvm, i))])

ProfileTaskResources(S, i) ==
    /\ \A b \in S : world[b].profiles[i].live
    /\ Update(S, [b \in S |-> AfterRead(ResourceProfile_read(world[b], jvm, i))])

ProfileExecutorResources(S, i) ==
    /\ \A b \in S : world[b].profiles[i].live
    /\ Update(S, [b \in S |-> AfterRead(ResourceProfile_read(world[b], jvm, i))])

\* The caller drops the profile of slot i.
Discard(S, i) ==
    /\ \A b \in S : world[b].profiles[i].live
    /\ Update(S, [b \in S |-> AfterDiscard(DropProfile(world[b], i), i)])

\* ---------------------------------------------------------- specifications
\* One builder, "b", constructed at some moment with or without a session.
Init ==
    /\ jvm \in BOOLEAN
    /\ world = [b \in Builders |-> BlankWorld]

One == {"b"}

Next ==
    \/ StartSession
    \/ StopSession
    \/ Construct(One)
    \/ \E g \in Groups : Require(One, g)
    \/ ClearExecutorResourceRequests(One)
    \/ ClearTaskResourceRequests(One)
    \/ Build(One)
    \/ BuilderTaskResources(One)
    \/ BuilderExecutorResources(One)
    \/ \E i \in Slots : ProfileId(One, i)
    \/ \E i \in Slots : ProfileTaskResources(One, i)
    \/ \E i \in Slots : ProfileExecutorResources(One, i)
    \/ \E i \in Slots : Discard(One, i)

Spec == Init /\ [][Next]_vars

\* Two builders driven by the same calls: "l" constructed without a session,
\* "d" constructed under the session that then stays.
Pair == {"l", "d"}

PairInit ==
    /\ jvm = TRUE
    /\ world = [b \in Builders |->
          IF b = "l" THEN AfterInit(ResourceProfileBuilder_init(BlankWorld, FALSE))
          ELSE IF b = "d" THEN AfterInit(ResourceProfileBuilder_init(BlankWorld, TRUE))
          ELSE BlankWorld]

PairNext ==
    \/ \E g \in Groups : Require(Pair, g)
    \/ ClearExecutorResourceRequests(Pair)
    \/ ClearTaskResourceRequests(Pair)
    \/ Build(Pair)
    \/ BuilderTaskResources(Pair)
    \/ BuilderExecutorResources(Pair)
    \/ \E i \in Slots : ProfileTaskResources(Pair, i)
    \/ \E i \in Slots : ProfileExecutorResources(Pair, i)
    \/ \E i \in Slots : Discard(Pair, i)

PairSpec == PairInit /\ [][PairNext]_vars

\* ----------------------------------------------------------------- claims
\* What the accessors of builder b and of its profile in slot i return.
BuilderExec(b) == ResourceProfileBuilder_executorResources(world[b])
BuilderTask(b) == ResourceProfileBuilder_taskResources(world[b])
ProfileExec(b, i) == ResourceProfile_executorResources(world[b], world[b].profiles[i])
ProfileTask(b, i) == ResourceProfile_taskResources(world[b], world[b].profiles[i])

Mode(w) == IF w.builder.java_resource_profile_builder # None THEN "Delegated" ELSE "Local"

IsConstructed(b) == world[b].builder.constructed
HasFreeSlot(b) == \E i \in Slots : ~world[b].profiles[i].live

\* The groups a caller can hand to require in the current state.
GroupsNow == {g \in Groups : g.remote => jvm}

\* C1: once build has returned a profile, its executorResources and
\* taskResources never change, whatever is later called on the builder: over
\* every step, a profile the caller holds before and after has the same two maps.
C1_ProfileMapsNeverChange ==
    [][\A b \in Builders : \A i \in Slots :
          (world[b].profiles[i].live /\ world'[b].profiles[i].live)
          => /\ ProfileExec(b, i)' = ProfileExec(b, i)
             /\ ProfileTask(b, i)' = ProfileTask(b, i)]_vars

\* C2: a Local and a Delegated builder given the same calls show the same
\* executorResources and taskResources, on the builders and on every pair of
\* corresponding profiles, and their calls end the same way.
C2_ModesEquivalent ==
    /\ BuilderExec("l") = BuilderExec("d")
    /\ BuilderTask("l") = BuilderTask("d")
    /\ world["l"].err = world["d"].err
    /\ \A i \in Slots :
          /\ world["l"].profiles[i].live = world["d"].profiles[i].live
          /\ world["l"].profiles[i].live
             => /\ ProfileExec("l", i) = ProfileExec("d", i)
                /\ ProfileTask("l", i) = ProfileTask("d", i)

\* C3: after require calls only, on a fresh builder, whose groups name pairwise
\* distinct resources per side, executorResources is the union of the executor
\* requests asked for and taskResources the union of the task requests.
C3_DistinctNamesUnion ==
    \A b \in Builders :
        world[b].required.pure
        => /\ BuilderExec(b) = world[b].required.executor
           /\ BuilderTask(b) = world[b].required.task

\* Three or more require calls have built up both maps.
C3_Witness ==
    /\ world["b"].required.pure
    /\ world["b"].required.calls = 3
    /\ DOMAIN BuilderTask("b") = TaskNames
    /\ DOMAIN BuilderExec("b") = ExecNames

\* The map of side kind that builder world w shows.
SideOf(w, kind) ==
    IF kind = "task" THEN ResourceProfileBuilder_taskResources(w)
    ELSE ResourceProfileBuilder_executorResources(w)

OtherSide(kind) == IF kind = "task" THEN "executor" ELSE "task"

\* C4: when require supplies a name already present on that side of the
\* builder, the entry of that name becomes the request of this call, and the
\* entry of every name the call does not supply stays what it was.
C4_LastWriteWins ==
    \A b \in Builders : IsConstructed(b) =>
        \A g \in GroupsNow :
            LET old == SideOf(world[b], g.kind)
                new == ResourceProfileBuilder_require(world[b], jvm, g)
                now == SideOf(new, g.kind)
            IN  new.err = "ok" =>
                    /\ \A n \in (DOMAIN old) \cap (DOMAIN g.requests) :
                          n \in DOMAIN now /\ now[n] = g.requests[n]
                    /\ \A n \in (DOMAIN old) \ (DOMAIN g.requests) :
                          n \in DOMAIN now /\ now[n] = old[n]

\* The last call replaced the task request of gpu, beside an entry for cpus.
C4_Witness ==
    /\ world["b"].replaced = {<<"task", "gpu">>}
    /\ world["b"].err = "ok"
    /\ DOMAIN BuilderTask("b") = {"cpus", "gpu"}

\* C5: in every builder state, a clearExecutorResourceRequests that returns
\* leaves executorResources empty and taskResources as it was, and a
\* clearTaskResourceRequests that returns leaves taskResources empty and
\* executorResources as it was.
C5_ClearOneSide ==
    \A b \in Builders : IsConstructed(b) =>
        LET ce == ResourceProfileBuilder_clearExecutorResourceRequests(world[b], jvm)
            ct == ResourceProfileBuilder_clearTaskResourceRequests(world[b], jvm)
        IN  /\ ce.err = "ok" =>
                /\ ResourceProfileBuilder_executorResources(ce) = EmptyDict
                /\ ResourceProfileBuilder_taskResources(ce) = BuilderTask(b)
            /\ ct.err = "ok" =>
                /\ ResourceProfileBuilder_taskResources(ct) = EmptyDict
                /\ ResourceProfileBuilder_executorResources(ct) = BuilderExec(b)

\* The executor side was cleared after a build (the profile still has what the
\* builder no longer has) and the task side is still there.
C5_Witness ==
    \E i \in Slots :
        /\ world["b"].profiles[i].live
        /\ DOMAIN ProfileExec("b", i) # {}
        /\ BuilderExec("b") = EmptyDict
        /\ DOMAIN BuilderTask("b") # {}
        /\ BuilderTask("b") = ProfileTask("b", i)

\* C6: require with a task group leaves the builder's executor side as it was
\* and require with an executor group leaves the task side as it was, so that
\* a task request and an executor request of the same name coexist.
C6_SidesIndependent ==
    \A b \in Builders : IsConstructed(b) =>
        \A g \in GroupsNow :
            LET new == ResourceProfileBuilder_require(world[b], jvm, g)
            IN  /\ SideOf(new, OtherSide(g.kind)) = SideOf(world[b], OtherSide(g.kind))
                /\ new.err = "ok" =>
                      \A n \in DOMAIN g.requests :
                          n \in DOMAIN SideOf(new, g.kind)
                          /\ SideOf(new, g.kind)[n] = g.requests[n]

\* gpu is asked for on both sides, 2 per executor and 1 per task.
C6_Witness ==
    /\ IsConstructed("b")
    /\ "gpu" \in DOMAIN BuilderExec("b")
    /\ "gpu" \in DOMAIN BuilderTask("b")
    /\ BuilderExec("b")["gpu"].amount = 2
    /\ BuilderExec("b")["gpu"].vendor = "nvidia.com"
    /\ BuilderTask("b")["gpu"].amount = 1

\* C7: build leaves the builder as it is: its attributes, its executorResources
\* and taskResources and its mode are the same after the call, in every state,
\* and without a JVM it never fails.
C7_BuildKeepsBuilder ==
    \A b \in Builders : (IsConstructed(b) /\ HasFreeSlot(b)) =>
        LET new == ResourceProfileBuilder_build(world[b], jvm)
        IN  /\ new.builder = world[b].builder
            /\ ResourceProfileBuilder_executorResources(new) = BuilderExec(b)
            /\ ResourceProfileBuilder_taskResources(new) = BuilderTask(b)
            /\ Mode(new) = Mode(world[b])
            /\ Mode(world[b]) = "Local" => new.err = "ok"

\* A profile was built and the builder, still holding requests on both sides,
\* has since been changed by require or clear.
C7_Witness ==
    \E i \in Slots :
        /\ world["b"].profiles[i].live
        /\ DOMAIN BuilderExec("b") # {}
        /\ DOMAIN BuilderTask("b") # {}
        /\ ProfileTask("b", i) # BuilderTask("b")
        /\ ProfileExec("b", i) # BuilderExec("b")

\* C8: the profile build returns has, when build returns, executorResources and
\* taskResources equal to the builder's own.
C8_BuildSnapshot ==
    \A b \in Builders : (IsConstructed(b) /\ HasFreeSlot(b)) =>
        LET new == ResourceProfileBuilder_build(world[b], jvm)
            p == new.profiles[FreeSlot(world[b])]
        IN  new.err = "ok" =>
                /\ p.live
                /\ ResourceProfile_executorResources(new, p) = BuilderExec(b)
                /\ ResourceProfile_taskResources(new, p) = BuilderTask(b)
                /\ ResourceProfile_executorResources(new, p)
                      = ResourceProfileBuilder_executorResources(new)
                /\ ResourceProfile_taskResources(new, p)
                      = ResourceProfileBuilder_taskResources(new)

\* A profile built with no task requests and the builder's executor requests.
C8_Witness ==
    \E i \in Slots :
        /\ world["b"].profiles[i].live
        /\ ProfileTask("b", i) = EmptyDict
        /\ BuilderTask("b") = EmptyDict
        /\ DOMAIN ProfileExec("b", i) # {}
        /\ ProfileExec("b", i) = BuilderExec("b")

\* C9: id on a profile built by a builder without a JVM raises RuntimeError (the
\* profile is not registered) in every state, and changes nothing else.
C9_LocalIdFails ==
    \A b \in Builders : (IsConstructed(b) /\ Mode(world[b]) = "Local") =>
        \A i \in Slots : world[b].profiles[i].live =>
            LET new == ResourceProfile_id(world[b], jvm, i)
            IN  /\ new.err = "RuntimeError"
                /\ [new EXCEPT !.err = world[b].err] = world[b]
                /\ ResourceProfile_executorResources(new, new.profiles[i]) = ProfileExec(b, i)
                /\ ResourceProfile_taskResources(new, new.profiles[i]) = ProfileTask(b, i)

\* id has just failed on a local profile, with a session active by now.
C9_Witness ==
    /\ world["b"].err = "RuntimeError"
    /\ Mode(world["b"]) = "Local"
    /\ jvm
    /\ \E i \in Slots : world["b"].profiles[i].live /\ DOMAIN ProfileTask("b", i) # {}

\* C10: the mode is decided at construction from whether a session is active
\* then (Delegated if so, Local if not) and no later step changes it or undoes
\* the construction, whatever happens to the session.
C10_ModeFixedAtConstruction ==
    [][\A b \in Builders :
          /\ (~world[b].builder.constructed /\ world'[b].builder.constructed)
             => Mode(world'[b]) = (IF jvm THEN "Delegated" ELSE "Local")
          /\ world[b].builder.constructed
             => /\ world'[b].builder.constructed
                /\ Mode(world'[b]) = Mode(world[b])
                /\ world'[b].builder.jvm = world[b].builder.jvm]_vars

\* A builder made without a session works on its own dicts under a session.
C10_Witness ==
    /\ IsConstructed("b")
    /\ Mode(world["b"]) = "Local"
    /\ jvm
    /\ world["b"].replaced # {}

\* What is left of world new when the way its last call ended is put aside.
SameButErr(new, old) == [new EXCEPT !.err = old.err] = old

IsRemote(b, i) ==
    world[b].profiles[i].live /\ world[b].profiles[i].java_resource_profile # None

\* C11: taskResources and executorResources, of a builder and of a profile,
\* change nothing: after the call every attribute, dict and JVM map is what it
\* was, both accessors of the builder and of every profile return what they
\* returned before, and a second call ends as the first and returns the same.
C11_ReadsChangeNothing ==
    \A b \in Builders : IsConstructed(b) =>
        LET once == ResourceProfileBuilder_read(world[b], jvm)
            twice == ResourceProfileBuilder_read(once, jvm)
        IN  /\ SameButErr(once, world[b])
            /\ twice = once
            /\ ResourceProfileBuilder_taskResources(once) = BuilderTask(b)
            /\ ResourceProfileBuilder_executorResources(once) = BuilderExec(b)
            /\ ResourceProfileBuilder_taskResources(twice) = BuilderTask(b)
            /\ \A i \in Slots : world[b].profiles[i].live =>
                  LET ponce == ResourceProfile_read(world[b], jvm, i)
                      ptwice == ResourceProfile_read(ponce, jvm, i)
                  IN  /\ SameButErr(ponce, world[b])
                      /\ ptwice = ponce
                      /\ ResourceProfile_taskResources(once, once.profiles[i])
                            = ProfileTask(b, i)
                      /\ ResourceProfile_executorResources(once, once.profiles[i])
                            = ProfileExec(b, i)
                      /\ ResourceProfile_taskResources(ptwice, ptwice.profiles[i])
                            = ProfileTask(b, i)
                      /\ ResourceProfile_executorResources(ptwice, ptwice.profiles[i])
                            = ProfileExec(b, i)
                      /\ ResourceProfileBuilder_taskResources(ptwice) = BuilderTask(b)
                      /\ ResourceProfileBuilder_executorResources(ptwice) = BuilderExec(b)

\* A builder with a JVM and its profile, both with requests on both sides,
\* after a call that returned and replaced nothing: a read leads from this
\* state to itself.
C11_Witness ==
    /\ IsConstructed("b")
    /\ Mode(world["b"]) = "Delegated"
    /\ jvm
    /\ world["b"].err = "ok"
    /\ world["b"].replaced = {}
    /\ DOMAIN BuilderTask("b") = TaskNames
    /\ DOMAIN BuilderExec("b") = ExecNames
    /\ \E i \in Slots : IsRemote("b", i) /\ DOMAIN ProfileTask("b", i) = {"gpu"}

\* C12 as stated: id of a profile that has a JVM handle returns, in every state.
C12_RemoteIdAlwaysSucceeds ==
    \A b \in Builders : \A i \in Slots :
        IsRemote(b, i) => ResourceProfile_id(world[b], jvm, i).err = "ok"

\* C12, amended: while the session is there, id of a profile that has a JVM
\* handle returns the id the engine gave that profile at build (the engine's
\* next id then, different from the id of every other profile still held) and
\* changes nothing; once the session is gone it raises BridgeError.
C12_RemoteIdWhileSessionUp ==
    \A b \in Builders : IsConstructed(b) =>
        /\ \A i \in Slots : IsRemote(b, i) =>
              LET new == ResourceProfile_id(world[b], jvm, i)
              IN  /\ SameButErr(new, world[b])
                  /\ new.err = (IF jvm THEN "ok" ELSE "BridgeError")
                  /\ ResourceProfile_idValue(new, i) = ResourceProfile_idValue(world[b], i)
        /\ (Mode(world[b]) = "Delegated" /\ jvm /\ HasFreeSlot(b)) =>
              LET k == FreeSlot(world[b])
                  built == ResourceProfileBuilder_build(world[b], jvm)
              IN  /\ built.profiles[k].java_resource_profile # None
                  /\ ResourceProfile_id(built, jvm, k).err = "ok"
                  /\ ResourceProfile_idValue(built, k) = JavaNextProfileId(world[b])
                  /\ \A j \in Slots \ {k} : IsRemote(b, j) =>
                        /\ ResourceProfile_idValue(built, j) = ResourceProfile_idValue(world[b], j)
                        /\ ResourceProfile_idValue(built, j) # ResourceProfile_idValue(built, k)

\* The profile of a builder with a JVM, with requests on both sides, while the
\* session is there and the builder has since been emptied.
C12_Witness ==
    /\ IsConstructed("b")
    /\ jvm
    /\ world["b"].err = "ok"
    /\ BuilderTask("b") = EmptyDict
    /\ BuilderExec("b") = EmptyDict
    /\ \E i \in Slots :
          /\ IsRemote("b", i)
          /\ DOMAIN ProfileTask("b", i) = TaskNames
          /\ DOMAIN ProfileExec("b", i) = ExecNames
          /\ ResourceProfile_idValue(world["b"], i) = 0

\* C13: a call on a builder with a JVM made after the session has gone raises
\* BridgeError and leaves everything as it was: require with any group (one
\* that carries a handle, or one for which a handle has to be made first), the
\* two clears, build and the accessors; the builder's two maps are what they were.
C13_FailureChangesNothing ==
    \A b \in Builders : (IsConstructed(b) /\ Mode(world[b]) = "Delegated" /\ ~jvm) =>
        /\ \A g \in Groups :
              LET new == ResourceProfileBuilder_require(world[b], jvm, g)
              IN  /\ new.err = "BridgeError"
                  /\ SameButErr(new, world[b])
                  /\ ResourceProfileBuilder_taskResources(new) = BuilderTask(b)
                  /\ ResourceProfileBuilder_executorResources(new) = BuilderExec(b)
        /\ \A new \in {ResourceProfileBuilder_clearExecutorResourceRequests(world[b], jvm),
                       ResourceProfileBuilder_clearTaskResourceRequests(world[b], jvm),
                       ResourceProfileBuilder_build(world[b], jvm),
                       ResourceProfileBuilder_read(world[b], jvm)} :
              /\ new.err = "BridgeError"
              /\ SameButErr(new, world[b])
              /\ ResourceProfileBuilder_taskResources(new) = BuilderTask(b)
              /\ ResourceProfileBuilder_executorResources(new) = BuilderExec(b)

\* A call has just failed on a builder with a JVM that holds requests on both
\* sides, the session being gone.
C13_Witness ==
    /\ IsConstructed("b")
    /\ Mode(world["b"]) = "Delegated"
    /\ ~jvm
    /\ world["b"].err = "BridgeError"
    /\ DOMAIN BuilderTask("b") = TaskNames
    /\ DOMAIN BuilderExec("b") = ExecNames

\* C14: on a builder with a JVM, require of a group that carries a handle and
\* require of a group of the same class and requests that carries none both
\* return and leave the same world, in which the JVM builder's map of that side
\* is the old one with the group's requests put over it.
C14_HandlePathsAgree ==
    \A b \in Builders : (IsConstructed(b) /\ Mode(world[b]) = "Delegated" /\ jvm) =>
        \A g \in Groups : g.remote =>
            LET forwarded == ResourceProfileBuilder_require(world[b], jvm, g)
                made == ResourceProfileBuilder_require(world[b], jvm, [g EXCEPT !.remote = FALSE])
            IN  /\ forwarded.err = "ok"
                /\ made.err = "ok"
                /\ made = forwarded
                /\ made.builder.java_resource_profile_builder
                      = forwarded.builder.java_resource_profile_builder
                /\ SideOf(made, g.kind) = RightBiasedMerge(SideOf(world[b], g.kind), g.requests)
                /\ SideOf(forwarded, g.kind) = SideOf(made, g.kind)

\* A builder with a JVM after two require calls, one per side.
C14_Witness ==
    /\ IsConstructed("b")
    /\ Mode(world["b"]) = "Delegated"
    /\ jvm
    /\ world["b"].required.pure
    /\ world["b"].required.calls = 2
    /\ DOMAIN BuilderExec("b") = ExecNames
    /\ DOMAIN BuilderTask("b") = {"gpu"}

\* The sides of a builder.
Sides == {"task", "executor"}

\* The map of side kind that profile p of world w shows.
ProfileSideOf(w, p, kind) ==
    IF kind = "task" THEN ResourceProfile_taskResources(w, p)
    ELSE ResourceProfile_executorResources(w, p)

\* C15: a builder with a JVM keeps no dict of its own, and what its
\* taskResources and executorResources return is, name by name and field by
\* field, what the JVM builder holds now, which is what the require and clear
\* calls that returned have left there.
C15_DelegatedReadsThrough ==
    \A b \in Builders : (IsConstructed(b) /\ Mode(world[b]) = "Delegated") =>
        LET jb == world[b].builder.java_resource_profile_builder
        IN  /\ world[b].builder.executor_resource_requests = 0
            /\ world[b].builder.task_resource_requests = 0
            /\ DOMAIN BuilderTask(b) = DOMAIN jb.taskResources
            /\ \A n \in DOMAIN jb.taskResources :
                  /\ BuilderTask(b)[n].resourceName = jb.taskResources[n].resourceName
                  /\ BuilderTask(b)[n].amount = jb.taskResources[n].amount
                  /\ jb.taskResources[n].jclass = "TaskResourceRequest"
            /\ DOMAIN BuilderExec(b) = DOMAIN jb.executorResources
            /\ \A n \in DOMAIN jb.executorResources :
                  /\ BuilderExec(b)[n].resourceName = jb.executorResources[n].resourceName
                  /\ BuilderExec(b)[n].amount = jb.executorResources[n].amount
                  /\ BuilderExec(b)[n].discoveryScript = jb.executorResources[n].discoveryScript
                  /\ BuilderExec(b)[n].vendor = jb.executorResources[n].vendor
                  /\ jb.executorResources[n].jclass = "ExecutorResourceRequest"
            /\ jb.taskResources = JavaTaskRequests(world[b].merged.task)
            /\ jb.executorResources = JavaExecutorRequests(world[b].merged.executor)

\* A builder with a JVM whose executor side was cleared after a build and whose
\* task side holds both names, gpu with the amount asked for last.
C15_Witness ==
    /\ IsConstructed("b")
    /\ Mode(world["b"]) = "Delegated"
    /\ DOMAIN BuilderTask("b") = TaskNames
    /\ BuilderTask("b")["gpu"].amount = 2
    /\ world["b"].replaced = {<<"task", "gpu">>}
    /\ BuilderExec("b") = EmptyDict
    /\ \E i \in Slots : IsRemote("b", i) /\ DOMAIN ProfileExec("b", i) = ExecNames

\* C16: a clear that returns leaves every profile the caller holds with the
\* executorResources and taskResources it had right before, in both modes, and
\* empties the builder's side.
C16_ClearKeepsProfiles ==
    \A b \in Builders : IsConstructed(b) =>
        \A ce \in {ResourceProfileBuilder_clearExecutorResourceRequests(world[b], jvm)} :
        \A ct \in {ResourceProfileBuilder_clearTaskResourceRequests(world[b], jvm)} :
            \A i \in Slots : world[b].profiles[i].live =>
                /\ ce.profiles[i].live
                /\ ct.profiles[i].live
                /\ ResourceProfile_executorResources(ce, ce.profiles[i]) = ProfileExec(b, i)
                /\ ResourceProfile_taskResources(ce, ce.profiles[i]) = ProfileTask(b, i)
                /\ ResourceProfile_executorResources(ct, ct.profiles[i]) = ProfileExec(b, i)
                /\ ResourceProfile_taskResources(ct, ct.profiles[i]) = ProfileTask(b, i)
                /\ ce.err = "ok" => ResourceProfileBuilder_executorResources(ce) = EmptyDict
                /\ ct.err = "ok" => ResourceProfileBuilder_taskResources(ct) = EmptyDict

\* A builder without a JVM whose task side was cleared after a build: it is
\* empty, and the profile has both names still.
C16_Witness ==
    /\ IsConstructed("b")
    /\ Mode(world["b"]) = "Local"
    /\ BuilderTask("b") = EmptyDict
    /\ \E i \in Slots :
          /\ world["b"].profiles[i].live
          /\ "task" \in world["b"].clearedSince[i]
          /\ DOMAIN ProfileTask("b", i) = TaskNames

\* C17: in every state each side of the builder is the groups required on
\* that side since its last clear (since construction, if there was none),
\* merged in the order of the calls, the later group winning a name; builds,
\* reads and calls on the other side add nothing to it.
C17_MergeSinceLastClear ==
    \A b \in Builders : IsConstructed(b) =>
        \A side \in Sides : SideOf(world[b], side) = world[b].merged[side]

\* After a build and a clear of the task side, gpu was required with amount 1
\* and then with amount 2: the task side is that alone, beside the executor
\* side, and the profile has what was there before the clear.
C17_Witness ==
    /\ IsConstructed("b")
    /\ world["b"].replaced = {<<"task", "gpu">>}
    /\ DOMAIN BuilderTask("b") = {"gpu"}
    /\ BuilderTask("b")["gpu"].amount = 2
    /\ DOMAIN BuilderExec("b") = ExecNames
    /\ \E i \in Slots :
          /\ world["b"].profiles[i].live
          /\ DOMAIN ProfileTask("b", i) = {"cpus"}

\* C18: over every step, a side of a profile of a builder without a JVM that
\* is empty stays empty (a side of such a profile only ever gains entries, so
\* it is empty exactly when it was built empty).
C18_EmptySideStaysEmpty ==
    [][\A b \in Builders : \A i \in Slots : \A side \in Sides :
          (/\ world[b].profiles[i].live
           /\ world'[b].profiles[i].live
           /\ world[b].profiles[i].java_resource_profile = None
           /\ ProfileSideOf(world[b], world[b].profiles[i], side) = EmptyDict)
          => ProfileSideOf(world'[b], world'[b].profiles[i], side) = EmptyDict]_vars

\* A profile built with no executor request by a builder without a JVM, which
\* has since been given one (and was never cleared).
C18_Witness ==
    /\ IsConstructed("b")
    /\ Mode(world["b"]) = "Local"
    /\ DOMAIN BuilderExec("b") = ExecNames
    /\ \E i \in Slots :
          /\ world["b"].profiles[i].live
          /\ world["b"].clearedSince[i] = {}
          /\ ProfileExec("b", i) = EmptyDict

\* C19: over every step, a side of a profile of a builder without a JVM that
\* was built before the builder's last clear of that side stays what it is.
C19_DetachedAfterClear ==
    [][\A b \in Builders : \A i \in Slots : \A side \in Sides :
          (/\ world[b].profiles[i].live
           /\ world'[b].profiles[i].live
           /\ world[b].profiles[i].java_resource_profile = None
           /\ side \in world[b].clearedSince[i])
          => ProfileSideOf(world'[b], world'[b].profiles[i], side)
                = ProfileSideOf(world[b], world[b].profiles[i], side)]_vars

\* After a build the task side was cleared and then required again: the
\* builder has gpu with amount 2, the profile still gpu with amount 1.
C19_Witness ==
    /\ IsConstructed("b")
    /\ Mode(world["b"]) = "Local"
    /\ "gpu" \in DOMAIN BuilderTask("b")
    /\ BuilderTask("b")["gpu"].amount = 2
    /\ \E i \in Slots :
          /\ world["b"].profiles[i].live
          /\ "task" \in world["b"].clearedSince[i]
          /\ "gpu" \in DOMAIN ProfileTask("b", i)
          /\ ProfileTask("b", i)["gpu"].amount = 1

====
